---- MODULE Spec2Model ----
(***************************************************************************)
(* Model of plot_posterior.py: the final-time weighted particle summary    *)
(* (weighted mean, population variance, searchsorted quantiles) and the    *)
(* pairwise covariance report.                                             *)
(*                                                                         *)
(* Floating-point numbers are modelled as exact reduced rationals          *)
(* [num, den] with den > 0; the record with den = 0 is NaN (the result of  *)
(* 0/0 at line 46 when a slice's weights sum to zero).                     *)
(***************************************************************************)
EXTENDS Integers, Sequences, FiniteSets, TLC

\* ------------------------------------------------------------------ bounds
MaxN == 3
MaxVal == 3
MaxW == 2
MaxQ == 4
SnapRows == 2
SnapMaxW == 2
MaxTime == 2
CovRows == 1
CovNames == 3
MaxCovar == 0

\* ------------------------------------------------------------- arithmetic
Abs(x) == IF x < 0 THEN 0 - x ELSE x

RECURSIVE GCD(_, _)
GCD(a, b) == IF b = 0 THEN a ELSE GCD(b, a % b)

NaN == [num |-> 0, den |-> 0]

IsNaN(x) == x.den = 0

\* n/d as a float: reduced, positive denominator; anything over 0 is not a
\* number (with non-negative weights only 0/0 arises).
Rat(n, d) ==
    IF d = 0 THEN NaN
    ELSE LET g == GCD(Abs(n), Abs(d))
             s == IF d < 0 THEN 0 - 1 ELSE 1
         IN  [num |-> (s * n) \div g, den |-> (s * d) \div g]

FromInt(v) == [num |-> v, den |-> 1]

RAdd(a, b) ==
    IF IsNaN(a) \/ IsNaN(b) THEN NaN
    ELSE Rat(a.num * b.den + b.num * a.den, a.den * b.den)

RSub(a, b) ==
    IF IsNaN(a) \/ IsNaN(b) THEN NaN
    ELSE Rat(a.num * b.den - b.num * a.den, a.den * b.den)

RMul(a, b) ==
    IF IsNaN(a) \/ IsNaN(b) THEN NaN
    ELSE Rat(a.num * b.num, a.den * b.den)

RDiv(a, b) ==
    IF IsNaN(a) \/ IsNaN(b) THEN NaN
    ELSE Rat(a.num * b.den, a.den * b.num)

\* a < b on floats: false as soon as one side is NaN.
RLess(a, b) == ~IsNaN(a) /\ ~IsNaN(b) /\ a.num * b.den < b.num * a.den

RLeq(a, b) == ~IsNaN(a) /\ ~IsNaN(b) /\ a.num * b.den <= b.num * a.den

\* ------------------------------------------------------------ numpy arrays
RECURSIVE SumSeq(_)
SumSeq(s) == IF s = <<>> THEN FromInt(0) ELSE RAdd(Head(s), SumSeq(Tail(s)))

\* np.cumsum
CumSum(s) == [k \in 1..Len(s) |-> SumSeq(SubSeq(s, 1, k))]

\* mutant: the normalization of line 46 left out
NormalizeWeightsSkipped(w) == w

\* weights / weights.sum()
NormalizeWeights(w) == LET total == SumSeq(w) IN [k \in 1..Len(w) |-> RDiv(w[k], total)]

\* np.average(a, weights=w): sum(a * w) / sum(w)
Average(a, w) ==
    RDiv(SumSeq([k \in 1..Len(a) |-> RMul(a[k], w[k])]), SumSeq(w))

\* mutant: the Bessel-corrected (sample) variance
WeightedVarianceSample(a, w, mean) ==
    RMul(Average([k \in 1..Len(a) |-> RMul(RSub(a[k], mean), RSub(a[k], mean))], w),
         Rat(Len(a), Len(a) - 1))

\* np.average((param_values - mean_val)**2, weights=weights)
WeightedVariance(a, w, mean) ==
    Average([k \in 1..Len(a) |-> RMul(RSub(a[k], mean), RSub(a[k], mean))], w)

\* np.sqrt, kept symbolic: the non-negative root of its argument.
Sqrt(x) == IF IsNaN(x) THEN NaN ELSE [sqrt_of |-> x]

\* mutant: the values left in table order
ArgSortsSkipped(a) == { [k \in 1..Len(a) |-> k] }

\* np.argsort with its default (unstable) sort: any permutation that puts
\* the values in ascending order.
ArgSorts(a) ==
    { p \in [1..Len(a) -> 1..Len(a)] :
        /\ \A x, y \in 1..Len(a) : x # y => p[x] # p[y]
        /\ \A x \in 1..(Len(a) - 1) : ~RLess(a[p[x + 1]], a[p[x]]) }

\* a[idx] with an index array
Take(a, idx) == [k \in 1..Len(idx) |-> a[idx[k]]]

\* numpy's ordering inside searchsorted: NaN sorts after every number.
NpLess(a, b) == RLess(a, b) \/ (IsNaN(b) /\ ~IsNaN(a))

\* mutant: side='right', the first element above v
SearchSortedRight(a, v) ==
    LET hits == { k \in 0..(Len(a) - 1) : NpLess(v, a[k + 1]) }
    IN  IF hits = {} THEN Len(a)
        ELSE CHOOSE k \in hits : \A j \in hits : k <= j

\* np.searchsorted(a, v), side='left', on a sorted array: the 0-based
\* position of the first element not below v, len(a) when there is none.
SearchSorted(a, v) ==
    LET hits == { k \in 0..(Len(a) - 1) : ~NpLess(a[k + 1], v) }
    IN  IF hits = {} THEN Len(a)
        ELSE CHOOSE k \in hits : \A j \in hits : k <= j

\* an exception, as a value
Exception(name) == [exception |-> name]

IndexError == Exception("IndexError")

\* sorted_vals[np.searchsorted(cumsum, q)]
QuantileAt(sorted_vals, cumsum, q) ==
    LET k == SearchSorted(cumsum, q)
    IN  IF k >= Len(sorted_vals) THEN IndexError ELSE sorted_vals[k + 1]

\* lines 82-92: the weighted quantile at each of the levels, with the sort
\* order sorted_idx
WeightedQuantiles(param_values, weights, sorted_idx, levels) ==
    LET sorted_vals == Take(param_values, sorted_idx)
        sorted_weights == Take(weights, sorted_idx)
        cumsum == CumSum(sorted_weights)
    IN  [q \in levels |-> QuantileAt(sorted_vals, cumsum, q)]

\* --------------------------------------------------------------- the script
\* line 49
estimated_params == <<"lnV0", "beta", "phi", "rho", "delta", "pi">>

\* lines 88-92: the five quantile levels of a summary
Q025 == Rat(25, 1000)
Q25 == Rat(25, 100)
Q50 == Rat(50, 100)
Q75 == Rat(75, 100)
Q975 == Rat(975, 1000)

SummaryLevels == {Q025, Q25, Q50, Q75, Q975}

VARIABLES
    pc,              \* position of the script
    snapshot_table,  \* est.tables['snapshot'] (line 25)
    times,           \* line 29
    final_time,      \* line 33
    particles,       \* line 37
    weights,         \* lines 41 and 46
    i,               \* loop index of lines 59 and 154 (1-based)
    summary_stats,   \* line 57
    axes,            \* the annotations drawn on each parameter's axis
    stdout,          \* the report lines printed (lines 132-140, 161)
    covar_table,     \* est.tables['covariencetable'] (line 149)
    final_covar,     \* line 150
    err,             \* the exception that ended the script, if any
    bound,           \* the names the script has assigned so far
    f_pc,            \* position of the stand-alone function application
    f_values,        \* its values argument
    f_raw,           \* the weights it was given
    f_weights,       \* the weights after normalization
    f_moments,       \* its mean / variance / std result
    f_quantiles      \* its quantile result, per level

script_vars == <<pc, snapshot_table, times, final_time, particles, weights, i,
                 summary_stats, axes, stdout, covar_table, final_covar, err, bound>>

function_vars == <<f_pc, f_values, f_raw, f_weights, f_moments, f_quantiles>>

vars == <<script_vars, function_vars>>

None == "None"

\* ---- the inputs a run may read
ParamNames == { estimated_params[k] : k \in 1..Len(estimated_params) }

\* the record at position pos of a snapshot table: its time, its weight and
\* a value per parameter; the values alternate with the position and the
\* parameter, so that every table of two records or more has columns in
\* ascending and columns in descending order
ParticleRow(t, w, pos) ==
    [c \in {"time", "weight"} \cup ParamNames |->
        IF c = "time" THEN t
        ELSE IF c = "weight" THEN w
        ELSE LET k == CHOOSE n \in 1..Len(estimated_params) : estimated_params[n] = c
             IN  ((pos + k) % 2) + 1]

SeqsUpTo(S, n) == UNION { [1..m -> S] : m \in 0..n }

\* every table of at most SnapRows records, any times and weights in any order
SnapshotTables ==
    { [k \in 1..Len(tw) |-> ParticleRow(tw[k][1], tw[k][2], k)] :
        tw \in SeqsUpTo((1..MaxTime) \X (0..SnapMaxW), SnapRows) }

\* the one-particle tables
SampleSnapshotTables == { <<ParticleRow(t, 1, 1)>> : t \in 1..MaxTime }

CovarNames == { estimated_params[k] : k \in 2..(1 + CovNames) }

CovarEntries ==
    { [time |-> t, param1 |-> a, param2 |-> b, covar |-> c] :
        t \in 1..MaxTime, a \in CovarNames, b \in CovarNames, c \in (0 - 1)..MaxCovar }

\* every table of at most CovRows entries
CovarTables == SeqsUpTo({ e \in CovarEntries : e.param1 # e.param2 }, CovRows)

SampleEntry(t) == [time |-> t, param1 |-> "phi", param2 |-> "beta", covar |-> 0 - 1]

\* the tables of at most two entries for one pair
SampleCovarTables ==
    { [k \in 1..Len(ts) |-> SampleEntry(ts[k])] : ts \in SeqsUpTo(1..MaxTime, 2) }

\* ---- numpy helpers on tables
Column(table, c) == [k \in 1..Len(table) |-> table[k][c]]

Range(s) == { s[k] : k \in 1..Len(s) }

\* mutant: the distinct elements in order of first appearance
UniqueUnsorted(col) ==
    LET firsts == { k \in 1..Len(col) : \A j \in 1..(k - 1) : col[j] # col[k] }
    IN  Column(SelectSeq([k \in 1..Len(col) |-> [at |-> k, v |-> col[k]]],
                         LAMBDA e : e.at \in firsts), "v")

\* np.unique: the distinct elements in ascending order
Unique(col) ==
    LET S == Range(col)
    IN  CHOOSE s \in [1..Cardinality(S) -> S] :
            \A x, y \in 1..Cardinality(S) : x < y => s[x] < s[y]

\* table[table['time'] == t]
WhereTime(table, t) == SelectSeq(table, LAMBDA r : r.time = t)

FloatColumn(table, c) == [k \in 1..Len(table) |-> FromInt(table[k][c])]

Abort(e) ==
    /\ pc' = "aborted"
    /\ err' = e

\* ---- lines 21-26, the table being any table within the bounds
LoadSnapshot ==
    /\ pc = "load"
    /\ snapshot_table' \in SnapshotTables
    /\ bound' = bound \cup {"snapshot_table"}
    /\ pc' = "times"
    /\ UNCHANGED <<times, final_time, particles, weights, i, summary_stats, axes,
                   stdout, covar_table, final_covar, err, function_vars>>

\* lines 21-26, the table holding one particle
LoadSampleSnapshot ==
    /\ pc = "load"
    /\ snapshot_table' \in SampleSnapshotTables
    /\ bound' = bound \cup {"snapshot_table"}
    /\ pc' = "times"
    /\ UNCHANGED <<times, final_time, particles, weights, i, summary_stats, axes,
                   stdout, covar_table, final_covar, err, function_vars>>

\* times[-1]
LastOf(s) == s[Len(s)]

\* mutant: an empty table yields a default time instead of an IndexError
SelectFinalTimeDefaulting ==
    /\ pc = "times"
    /\ times' = Unique(Column(snapshot_table, "time"))
    /\ final_time' = IF Len(times') = 0 THEN 0 ELSE LastOf(times')
    /\ bound' = bound \cup {"times", "final_time"}
    /\ pc' = "slice"
    /\ UNCHANGED <<snapshot_table, particles, weights, i, summary_stats, axes,
                   stdout, covar_table, final_covar, err, function_vars>>

\* ---- lines 28-34
SelectFinalTime ==
    /\ pc = "times"
    /\ times' = Unique(Column(snapshot_table, "time"))
    /\ IF Len(times') = 0
       THEN /\ Abort(IndexError)
            /\ bound' = bound \cup {"times"}
            /\ UNCHANGED final_time
       ELSE /\ final_time' = LastOf(times')
            /\ bound' = bound \cup {"times", "final_time"}
            /\ pc' = "slice"
            /\ UNCHANGED err
    /\ UNCHANGED <<snapshot_table, particles, weights, i, summary_stats, axes,
                   stdout, covar_table, final_covar, function_vars>>

\* ---- lines 36-38
SelectParticles ==
    /\ pc = "slice"
    /\ particles' = WhereTime(snapshot_table, final_time)
    /\ bound' = bound \cup {"particles"}
    /\ pc' = "weights"
    /\ UNCHANGED <<snapshot_table, times, final_time, weights, i, summary_stats, axes,
                   stdout, covar_table, final_covar, err, function_vars>>

\* ---- lines 40-46; weights.min() of an empty array raises ValueError
ExtractWeights ==
    /\ pc = "weights"
    /\ IF Len(particles) = 0
       THEN /\ Abort(Exception("ValueError"))
            /\ weights' = FloatColumn(particles, "weight")
            /\ UNCHANGED i
       ELSE /\ weights' = NormalizeWeights(FloatColumn(particles, "weight"))
            /\ i' = 1
            /\ pc' = "summarize"
            /\ UNCHANGED err
    /\ bound' = bound \cup {"weights"}
    /\ UNCHANGED <<snapshot_table, times, final_time, particles, summary_stats, axes,
                   stdout, covar_table, final_covar, function_vars>>

\* lines 74-92 and 111-119 for one parameter, with the sort order sorted_idx
Summarize(param_values, w, sorted_idx) ==
    LET mean_val == Average(param_values, w)
        variance == WeightedVariance(param_values, w, mean_val)
        quantile == WeightedQuantiles(param_values, w, sorted_idx, SummaryLevels)
    IN  [mean |-> mean_val,
         std |-> Sqrt(variance),
         median |-> quantile[Q50],
         q025 |-> quantile[Q025],
         q25 |-> quantile[Q25],
         q75 |-> quantile[Q75],
         q975 |-> quantile[Q975]]

Raised(stats) ==
    IndexError \in { stats.median, stats.q025, stats.q25, stats.q75, stats.q975 }

\* ---- one iteration of the loop of lines 59-119
SummarizeParam ==
    /\ pc = "summarize"
    /\ i <= Len(estimated_params)
    /\ LET param == estimated_params[i]
           param_values == FloatColumn(particles, param)
       IN  \E sorted_idx \in ArgSorts(param_values) :
              LET stats == Summarize(param_values, weights, sorted_idx)
              IN  IF Raised(stats)
                  THEN /\ Abort(IndexError)
                       /\ UNCHANGED <<i, summary_stats, axes>>
                  ELSE /\ axes' = [axes EXCEPT ![param] =
                                      [mean_line |-> stats.mean,
                                       median_line |-> stats.median,
                                       ci_span |-> <<stats.q025, stats.q975>>]]
                       /\ summary_stats' = [p \in DOMAIN summary_stats \cup {param} |->
                                              IF p = param THEN stats ELSE summary_stats[p]]
                       /\ i' = i + 1
                       /\ UNCHANGED <<pc, err>>
    /\ UNCHANGED <<snapshot_table, times, final_time, particles, weights,
                   stdout, covar_table, final_covar, bound, function_vars>>

\* lines 132-140: one block per summarized parameter
RECURSIVE SummaryLines(_)
SummaryLines(k) ==
    IF k > Len(estimated_params) THEN <<>>
    ELSE LET param == estimated_params[k]
             rest == SummaryLines(k + 1)
         IN  IF param \in DOMAIN summary_stats
             THEN <<[param |-> param,
                     mean |-> summary_stats[param].mean,
                     std |-> summary_stats[param].std,
                     median |-> summary_stats[param].median,
                     ci |-> <<summary_stats[param].q025, summary_stats[param].q975>>,
                     iqr |-> <<summary_stats[param].q25, summary_stats[param].q75>>]>> \o rest
             ELSE rest

\* ---- lines 121-147
PrintSummary ==
    /\ pc = "summarize"
    /\ i > Len(estimated_params)
    /\ stdout' = stdout \o SummaryLines(1)
    /\ pc' = "covariance"
    /\ UNCHANGED <<snapshot_table, times, final_time, particles, weights, i, summary_stats,
                   axes, covar_table, final_covar, err, bound, function_vars>>

\* ---- lines 149-153, the table being any table within the bounds
LoadCovariance ==
    /\ pc = "covariance"
    /\ covar_table' \in CovarTables
    /\ final_covar' = WhereTime(covar_table', final_time)
    /\ bound' = bound \cup {"covar_table", "final_covar"}
    /\ i' = 1
    /\ pc' = "pairs"
    /\ UNCHANGED <<snapshot_table, times, final_time, particles, weights, summary_stats,
                   axes, stdout, err, function_vars>>

\* lines 149-153, the table being a sample table
LoadSampleCovariance ==
    /\ pc = "covariance"
    /\ covar_table' \in SampleCovarTables
    /\ final_covar' = WhereTime(covar_table', final_time)
    /\ bound' = bound \cup {"covar_table", "final_covar"}
    /\ i' = 1
    /\ pc' = "pairs"
    /\ UNCHANGED <<snapshot_table, times, final_time, particles, weights, summary_stats,
                   axes, stdout, err, function_vars>>

\* mutant: only the ordering (p1, p2) is matched
MaskOrdered(fc, p1, p2) ==
    { k \in 1..Len(fc) : fc[k].param1 = p1 /\ fc[k].param2 = p2 }

\* lines 156-157: the positions of final_covar the mask selects
Mask(fc, p1, p2) ==
    { k \in 1..Len(fc) :
        \/ (fc[k].param1 = p1 /\ fc[k].param2 = p2)
        \/ (fc[k].param1 = p2 /\ fc[k].param2 = p1) }

NotFound == [found |-> FALSE, covar |-> 0]

Found(c) == [found |-> TRUE, covar |-> c]

\* lines 158-159: final_covar[mask]['covar'][0] when np.any(mask)
LookupCovariance(fc, p1, p2) ==
    LET mask == Mask(fc, p1, p2)
    IN  IF mask # {}
        THEN Found(fc[CHOOSE k \in mask : \A j \in mask : k <= j].covar)
        ELSE NotFound

\* lines 155-161: the lines printed for p1 against estimated_params[j..]
RECURSIVE PairLines(_, _, _)
PairLines(fc, p1, j) ==
    IF j > Len(estimated_params) THEN <<>>
    ELSE LET p2 == estimated_params[j]
             hit == LookupCovariance(fc, p1, p2)
             covar == hit.covar
             rest == PairLines(fc, p1, j + 1)
         IN  IF hit.found
             THEN <<[p1 |-> p1, p2 |-> p2,
                     sign |-> IF covar >= 0 THEN "+" ELSE "-",
                     abs |-> Abs(covar)]>> \o rest
             ELSE rest

\* mutant: the covariance is read without the np.any(mask) guard of line
\* 158, so that an absent pair raises
CovarianceRowUnguarded ==
    /\ pc = "pairs"
    /\ i <= Len(estimated_params)
    /\ IF \E j \in (i + 1)..Len(estimated_params) :
             ~LookupCovariance(final_covar, estimated_params[i], estimated_params[j]).found
       THEN /\ Abort(IndexError)
            /\ UNCHANGED <<stdout, i>>
       ELSE /\ stdout' = stdout \o PairLines(final_covar, estimated_params[i], i + 1)
            /\ i' = i + 1
            /\ UNCHANGED <<pc, err>>
    /\ UNCHANGED <<snapshot_table, times, final_time, particles, weights, summary_stats,
                   axes, covar_table, final_covar, bound, function_vars>>

\* ---- one iteration of the outer loop of lines 154-161
CovarianceRow ==
    /\ pc = "pairs"
    /\ i <= Len(estimated_params)
    /\ stdout' = stdout \o PairLines(final_covar, estimated_params[i], i + 1)
    /\ i' = i + 1
    /\ UNCHANGED <<pc, snapshot_table, times, final_time, particles, weights, summary_stats,
                   axes, covar_table, final_covar, err, bound, function_vars>>

\* ---- lines 163-164
Finish ==
    /\ pc = "pairs"
    /\ i > Len(estimated_params)
    /\ pc' = "done"
    /\ UNCHANGED <<snapshot_table, times, final_time, particles, weights, i, summary_stats,
                   axes, stdout, covar_table, final_covar, err, bound, function_vars>>

FunctionsIdle ==
    /\ f_pc = "idle"
    /\ f_values = <<>>
    /\ f_raw = <<>>
    /\ f_weights = <<>>
    /\ f_moments = <<>>
    /\ f_quantiles = <<>>

\* nothing assigned yet: every name holds a placeholder and bound is empty
ScriptStart ==
    /\ snapshot_table = <<>>
    /\ times = <<>>
    /\ final_time = 0
    /\ particles = <<>>
    /\ weights = <<>>
    /\ i = 0
    /\ summary_stats = <<>>
    /\ axes = [p \in ParamNames |-> <<>>]
    /\ stdout = <<>>
    /\ covar_table = <<>>
    /\ final_covar = <<>>
    /\ err = Exception(None)
    /\ bound = {}

Init ==
    /\ pc = "load"
    /\ ScriptStart
    /\ FunctionsIdle

\* the script on every snapshot table, with the sample covariance tables
Next ==
    \/ LoadSnapshot
    \/ SelectFinalTime
    \/ SelectParticles
    \/ ExtractWeights
    \/ SummarizeParam
    \/ PrintSummary
    \/ LoadSampleCovariance
    \/ CovarianceRow
    \/ Finish

Spec == Init /\ [][Next]_vars

\* the script on every covariance table, with the one-particle snapshots
CovNext ==
    \/ LoadSampleSnapshot
    \/ SelectFinalTime
    \/ SelectParticles
    \/ ExtractWeights
    \/ SummarizeParam
    \/ PrintSummary
    \/ LoadCovariance
    \/ CovarianceRow
    \/ Finish

CovSpec == Init /\ [][CovNext]_vars

\* ------------------------------------------- the functions on their own
\* The statistics of lines 46 and 74-92 applied to arbitrary arguments: any
\* values, any non-negative weights, and quantile levels beyond the five the
\* script asks for.
Levels == SummaryLevels \cup { Rat(k, MaxQ) : k \in 0..(MaxQ + 1) }

FloatSeqs(lo, hi, n) == { [k \in 1..n |-> FromInt(s[k])] : s \in [1..n -> lo..hi] }

FloatSeq(s) == [k \in 1..Len(s) |-> FromInt(s[k])]

\* the two worked examples of the documentation (weights in fifths and tenths)
Scenarios ==
    { <<FloatSeq(<<1, 2, 3, 4, 5>>), FloatSeq(<<1, 1, 1, 1, 1>>)>>,
      <<FloatSeq(<<1, 2, 3>>), FloatSeq(<<2, 3, 5>>)>> }

BoundedArgs ==
    UNION { FloatSeqs(1, MaxVal, n) \X FloatSeqs(0, MaxW, n) : n \in 1..MaxN }

FunctionArgs ==
    /\ \E args \in BoundedArgs \cup Scenarios :
          /\ f_values = args[1]
          /\ f_raw = args[2]
    /\ f_pc = "args"
    /\ f_weights = <<>>
    /\ f_moments = <<>>
    /\ f_quantiles = <<>>

\* ---- line 46
ApplyNormalize ==
    /\ f_pc = "args"
    /\ f_weights' = NormalizeWeights(f_raw)
    /\ f_pc' = "normalized"
    /\ UNCHANGED <<f_values, f_raw, f_moments, f_quantiles, script_vars>>

\* ---- lines 74-79
ApplyMoments ==
    /\ f_pc = "normalized"
    /\ LET mean_val == Average(f_values, f_weights)
           variance == WeightedVariance(f_values, f_weights, mean_val)
       IN  f_moments' = [mean |-> mean_val, variance |-> variance, std |-> Sqrt(variance)]
    /\ f_pc' = "moments"
    /\ UNCHANGED <<f_values, f_raw, f_weights, f_quantiles, script_vars>>

\* ---- lines 81-92, at every level of Levels
ApplyQuantiles ==
    /\ f_pc = "moments"
    /\ \E sorted_idx \in ArgSorts(f_values) :
          f_quantiles' = WeightedQuantiles(f_values, f_weights, sorted_idx, Levels)
    /\ f_pc' = "quantiles"
    /\ UNCHANGED <<f_values, f_raw, f_weights, f_moments, script_vars>>

QInit ==
    /\ pc = "idle"
    /\ ScriptStart
    /\ FunctionArgs

QNext ==
    \/ ApplyNormalize
    \/ ApplyMoments
    \/ ApplyQuantiles

QSpec == QInit /\ [][QNext]_vars

\* ------------------------------------------------------------ properties
RECURSIVE SumOver(_, _)
SumOver(S, f) ==
    IF S = {} THEN 0
    ELSE LET x == CHOOSE y \in S : TRUE IN f[x] + SumOver(S \ {x}, f)

\* the arguments of the function application, as integers
FIdx == 1..Len(f_values)

FVal(k) == f_values[k].num

FRaw(k) == f_raw[k].num

FRawSum == SumOver(FIdx, [k \in FIdx |-> FRaw(k)])

\* the raw weight carried by the values not above v
FMassUpTo(v) == SumOver({ k \in FIdx : FVal(k) <= v }, [k \in FIdx |-> FRaw(k)])

FValues == { FVal(k) : k \in FIdx }

IsValue(r) == r # IndexError /\ r.den = 1 /\ r.num \in FValues

\* q <= (mass up to v) / (total mass)
FReaches(v, q) == q.num * FRawSum <= FMassUpTo(v) * q.den

\* r is the smallest value whose cumulative normalized weight reaches q
FirstReaching(r, q) ==
    /\ IsValue(r)
    /\ FReaches(r.num, q)
    /\ \A v \in FValues : v < r.num => ~FReaches(v, q)

\* r is the K-th smallest of the values
KthSmallest(r, K) ==
    /\ IsValue(r)
    /\ Cardinality({ k \in FIdx : FVal(k) < r.num }) < K
    /\ K <= Cardinality({ k \in FIdx : FVal(k) <= r.num })

\* ceil(q * n)
CeilTimes(q, n) == (q.num * n + q.den - 1) \div q.den

EqualWeights == \A k \in FIdx : FRaw(k) = FRaw(1)

\* C1: with normalized non-negative weights and a level q not above the
\* final cumulative weight (which is 1), the weighted quantile is the value
\* at the first position of the ascending values whose cumulative weight is
\* >= q, a cumulative weight equal to q selecting that position; with n equal
\* weights that is the ceil(q*n)-th smallest value, and q = 0.5 on
\* [1,2,3,4,5] gives 3.
QuantileIsFirstReaching ==
    (f_pc = "quantiles" /\ FRawSum > 0) =>
        /\ \A q \in Levels : RLeq(q, FromInt(1)) =>
              /\ FirstReaching(f_quantiles[q], q)
              /\ (EqualWeights /\ q.num > 0) =>
                    KthSmallest(f_quantiles[q], CeilTimes(q, Len(f_values)))
        /\ (f_values = FloatSeq(<<1, 2, 3, 4, 5>>) /\ EqualWeights) =>
              f_quantiles[Q50] = FromInt(3)

\* a cumulative weight exactly equal to the level, on unsorted values
QuantileTieReached ==
    /\ f_pc = "quantiles"
    /\ f_values = FloatSeq(<<3, 1, 2>>)
    /\ f_raw = FloatSeq(<<1, 2, 1>>)
    /\ f_quantiles[Q50] = FromInt(1)
    /\ f_quantiles[Q75] = FromInt(2)

FMax == CHOOSE v \in FValues : \A u \in FValues : u <= v

QuantileMonotone ==
    f_pc = "quantiles" =>
        /\ \A q1, q2 \in Levels :
              (RLeq(q1, q2) /\ f_quantiles[q2] # IndexError) =>
                  /\ f_quantiles[q1] # IndexError
                  /\ RLeq(f_quantiles[q1], f_quantiles[q2])
        /\ RLeq(f_quantiles[Q025], f_quantiles[Q25])
        /\ RLeq(f_quantiles[Q25], f_quantiles[Q50])
        /\ RLeq(f_quantiles[Q50], f_quantiles[Q75])
        /\ RLeq(f_quantiles[Q75], f_quantiles[Q975])

\* levels that pick different values of an unsorted array
QuantilesSpreadReached ==
    /\ f_pc = "quantiles"
    /\ f_values = FloatSeq(<<3, 1, 2>>)
    /\ f_raw = FloatSeq(<<1, 1, 1>>)
    /\ f_quantiles[Q025] = FromInt(1)
    /\ f_quantiles[Q50] = FromInt(2)
    /\ f_quantiles[Q975] = FromInt(3)

FWeightedSum == SumOver(FIdx, [k \in FIdx |-> FRaw(k) * FVal(k)])

\* sum of raw_k * (S * v_k - M)^2, i.e. S^3 times the population variance
FScaledSquares ==
    SumOver(FIdx, [k \in FIdx |-> FRaw(k) * (FRawSum * FVal(k) - FWeightedSum)
                                          * (FRawSum * FVal(k) - FWeightedSum)])

MomentsArePopulation ==
    /\ f_moments.mean.den > 0
    /\ f_moments.mean.num * FRawSum = FWeightedSum * f_moments.mean.den
    /\ f_moments.variance.den > 0
    /\ f_moments.variance.num * FRawSum * FRawSum * FRawSum
          = FScaledSquares * f_moments.variance.den
    /\ f_moments.std = [sqrt_of |-> f_moments.variance]

VarianceScenario ==
    /\ f_values = FloatSeq(<<1, 2, 3>>)
    /\ f_weights = <<Rat(2, 10), Rat(3, 10), Rat(5, 10)>>

\* C8 as stated: population weighted variance about the weighted mean, std
\* its square root; values [1,2,3] with weights [0.2,0.3,0.5] give mean 2.2
\* and variance 0.56.
VarianceScenarioAsStated ==
    (f_pc \in {"moments", "quantiles"} /\ FRawSum > 0) =>
        /\ MomentsArePopulation
        /\ VarianceScenario =>
              /\ f_moments.mean = Rat(22, 10)
              /\ f_moments.variance = Rat(56, 100)

\* C8, amended: population weighted variance about the weighted mean, std
\* its square root; values [1,2,3] with weights [0.2,0.3,0.5] give mean 2.3
\* and variance 0.61.
PopulationVariance ==
    (f_pc \in {"moments", "quantiles"} /\ FRawSum > 0) =>
        /\ MomentsArePopulation
        /\ VarianceScenario =>
              /\ f_moments.mean = Rat(23, 10)
              /\ f_moments.variance = Rat(61, 100)

VarianceScenarioReached ==
    /\ f_pc = "moments"
    /\ VarianceScenario
    /\ f_moments.variance = Rat(61, 100)

\* ---- the script run
NoError == Exception(None)

Loaded == "snapshot_table" \in bound

Sliced == "particles" \in bound

\* line 46 has run
Normalized == "weights" \in bound /\ pc # "aborted"

PIdx == 1..Len(particles)

PRaw == [k \in PIdx |-> particles[k].weight]

PRawSum == SumOver(PIdx, PRaw)

SummaryPrinted == SelectSeq(stdout, LAMBDA l : "param" \in DOMAIN l)

CovariancePrinted == SelectSeq(stdout, LAMBDA l : "p1" \in DOMAIN l)

NothingSummarized ==
    /\ DOMAIN summary_stats = {}
    /\ \A p \in ParamNames : axes[p] = <<>>
    /\ SummaryPrinted = <<>>

\* C3: when the weights of the selected slice sum to zero the summary is
\* aborted: no mean, standard deviation or quantile is produced, plotted or
\* printed from them.
ZeroWeightSumAborts ==
    (Sliced /\ particles # <<>> /\ PRawSum = 0) => NothingSummarized

\* C4: when no record matches the selected timestamp (the empty table
\* included) the script stops with an error before normalization: no
\* weights are normalized and no statistics computed on an empty slice.
EmptySliceAborts ==
    /\ (Loaded /\ snapshot_table = <<>> /\ pc # "times") =>
          /\ pc = "aborted"
          /\ err = IndexError
          /\ ~Sliced /\ ~Normalized /\ NothingSummarized
    /\ (Sliced /\ particles = <<>>) =>
          /\ pc = "weights" \/ (pc = "aborted" /\ err # NoError)
          /\ ~Normalized /\ NothingSummarized
    /\ Normalized => (Sliced /\ particles # <<>>)

EmptyTableAborted ==
    /\ pc = "aborted"
    /\ Loaded
    /\ snapshot_table = <<>>
    /\ err = IndexError

TimeChosen == pc \in {"slice", "weights", "summarize", "covariance", "pairs", "done"}

IsLatest(t) ==
    /\ \E k \in 1..Len(snapshot_table) : snapshot_table[k].time = t
    /\ \A k \in 1..Len(snapshot_table) : snapshot_table[k].time <= t

\* s is the subsequence of table made of the rows satisfying keep
RECURSIVE IsFiltered(_, _, _)
IsFiltered(s, table, keep) ==
    IF table = <<>> THEN s = <<>>
    ELSE IF Head(table) \in keep
         THEN s # <<>> /\ Head(s) = Head(table) /\ IsFiltered(Tail(s), Tail(table), keep)
         ELSE IsFiltered(s, Tail(table), keep)

\* C10: for any non-empty snapshot table, in any record order, the selected
\* timestamp is the maximum time of the table, the slice is exactly the
\* records at that time (so non-empty), and the covariance entries consulted
\* are exactly those of that time.
FinalTimeIsLatest ==
    (Loaded /\ snapshot_table # <<>> /\ pc # "times") =>
        /\ TimeChosen
        /\ IsLatest(final_time)
        /\ pc # "slice" =>
              /\ particles # <<>>
              /\ IsFiltered(particles, snapshot_table,
                            { r \in Range(snapshot_table) : IsLatest(r.time) })
        /\ pc \in {"pairs", "done"} =>
              IsFiltered(final_covar, covar_table,
                         { e \in Range(covar_table) : IsLatest(e.time) })

\* the latest records come first in the table and only some covariance
\* entries are of the latest time
LatestFirstReached ==
    /\ pc = "done"
    /\ Len(snapshot_table) = 2
    /\ snapshot_table[1].time > snapshot_table[2].time
    /\ Len(particles) = 1
    /\ Len(covar_table) = 2
    /\ Len(final_covar) = 1
    /\ final_covar[1].time = snapshot_table[1].time

Stored(fc, a, b) == \E k \in 1..Len(fc) : fc[k].param1 = a /\ fc[k].param2 = b

\* the covariance of the first entry of fc between a and b, in either order
FirstBetween(fc, a, b) ==
    LET ks == { k \in 1..Len(fc) : {fc[k].param1, fc[k].param2} = {a, b} }
    IN  fc[CHOOSE k \in ks : \A j \in ks : k <= j].covar

Position(p) == CHOOSE n \in 1..Len(estimated_params) : estimated_params[n] = p

\* C5: the covariance lookup treats the pair as unordered: (a, b) and (b, a)
\* give the same result, also when only one ordering is stored.
CovarianceLookupUnordered ==
    pc \in {"pairs", "done"} =>
        /\ \A a, b \in ParamNames :
              /\ LookupCovariance(final_covar, a, b) = LookupCovariance(final_covar, b, a)
              /\ (Stored(final_covar, a, b) /\ a # b) =>
                    /\ LookupCovariance(final_covar, a, b).found
                    /\ LookupCovariance(final_covar, b, a).found
                    /\ LookupCovariance(final_covar, b, a).covar
                          = FirstBetween(final_covar, a, b)
        /\ \A a, b \in ParamNames :
              (Position(a) < i /\ Position(a) < Position(b) /\ Stored(final_covar, b, a)) =>
                  \E n \in 1..Len(CovariancePrinted) :
                      /\ CovariancePrinted[n].p1 = a
                      /\ CovariancePrinted[n].p2 = b

\* only the reversed ordering is stored, and the pair is reported
ReversedPairReported ==
    /\ pc = "done"
    /\ Stored(final_covar, "phi", "beta")
    /\ ~Stored(final_covar, "beta", "phi")
    /\ \E n \in 1..Len(CovariancePrinted) :
          /\ CovariancePrinted[n].p1 = "beta"
          /\ CovariancePrinted[n].p2 = "phi"

Present(a, b) == Stored(final_covar, a, b) \/ Stored(final_covar, b, a)

\* the report line of the pair (a, b)
PairLine(a, b) ==
    LET c == FirstBetween(final_covar, a, b)
    IN  [p1 |-> a, p2 |-> b, sign |-> IF c >= 0 THEN "+" ELSE "-", abs |-> Abs(c)]

\* C6: a pair with no covariance entry at the final time is omitted and
\* nothing is read for it; every other pair is still looked up and reported,
\* and the run goes on to its end whichever pairs are absent.
MissingPairsOmitted ==
    "final_covar" \in bound =>
        /\ pc \in {"pairs", "done"}
        /\ err = NoError
        /\ pc = "pairs" => ENABLED (CovarianceRow \/ Finish)
        /\ pc = "done" => i = Len(estimated_params) + 1
        /\ \A n \in 1..Len(CovariancePrinted) :
              LET l == CovariancePrinted[n]
              IN  /\ Position(l.p1) < Position(l.p2)
                  /\ Present(l.p1, l.p2)
                  /\ l = PairLine(l.p1, l.p2)
        /\ \A a, b \in ParamNames :
              (Position(a) < i /\ Position(a) < Position(b) /\ Present(a, b)) =>
                  \E n \in 1..Len(CovariancePrinted) : CovariancePrinted[n] = PairLine(a, b)
        /\ \A n \in 1..(Len(CovariancePrinted) - 1) :
              LET l == CovariancePrinted[n]
                  m == CovariancePrinted[n + 1]
              IN  \/ Position(l.p1) < Position(m.p1)
                  \/ (l.p1 = m.p1 /\ Position(l.p2) < Position(m.p2))

\* pairs are absent before and after the one reported, (phi, rho)
AbsentPairSkipped ==
    /\ pc = "done"
    /\ ~Present("beta", "phi")
    /\ ~Present("beta", "rho")
    /\ ~Present("rho", "pi")
    /\ CovariancePrinted = <<[p1 |-> "phi", p2 |-> "rho", sign |-> "-", abs |-> 1]>>

\* the raw weight of the slice carried by the values of param not above v
PMassUpTo(param, v) ==
    SumOver({ k \in PIdx : particles[k][param] <= v }, PRaw)

PValues(param) == { particles[k][param] : k \in PIdx }

PFirstReaching(param, r, q) ==
    /\ r # IndexError /\ r.den = 1 /\ r.num \in PValues(param)
    /\ q.num * PRawSum <= PMassUpTo(param, r.num) * q.den
    /\ \A v \in PValues(param) :
          v < r.num => ~(q.num * PRawSum <= PMassUpTo(param, v) * q.den)

\* C9: for a slice of positive weights the normalized weights (each weight
\* over the sum of the slice) sum to 1 whatever the original sum, and every
\* statistic of the run is computed from the normalized weights.
NormalizedWeightsUsed ==
    (Normalized /\ PRawSum > 0) =>
        /\ SumSeq(weights) = FromInt(1)
        /\ \A k \in PIdx : weights[k].num * PRawSum = PRaw[k] * weights[k].den
        /\ \A p \in DOMAIN summary_stats :
              /\ summary_stats[p].mean.num * PRawSum
                    = SumOver(PIdx, [k \in PIdx |-> PRaw[k] * particles[k][p]])
                          * summary_stats[p].mean.den
              /\ PFirstReaching(p, summary_stats[p].q025, Q025)
              /\ PFirstReaching(p, summary_stats[p].q25, Q25)
              /\ PFirstReaching(p, summary_stats[p].median, Q50)
              /\ PFirstReaching(p, summary_stats[p].q75, Q75)
              /\ PFirstReaching(p, summary_stats[p].q975, Q975)

\* a slice of positive weights summing to 3, summarized to the end
UnnormalizedSliceSummarized ==
    /\ pc = "done"
    /\ Len(particles) = 2
    /\ particles[1].weight = 2 /\ particles[2].weight = 1
    /\ particles[1].lnV0 # particles[2].lnV0
    /\ DOMAIN summary_stats = ParamNames

====
